---- MODULE Spec2Model ----
(***************************************************************************)
(* A model of src/libpgagroal/deque.c: the optionally thread-safe deque    *)
(* with two sentinel nodes, tagged lookup and a removing iterator.         *)
(*                                                                         *)
(* Memory is modelled explicitly: nodes, value cells and tag copies are    *)
(* cells with an allocation state, so that leaks, double frees and uses of *)
(* freed memory are visible.  Every public operation is a call action      *)
(* followed by one action per statement that touches shared memory, run by *)
(* a thread t; the reader/writer lock is a state variable.                 *)
(***************************************************************************)
EXTENDS Integers, Sequences, FiniteSets, TLC

\* ---- bounds ----
MaxNodes == 3
MaxAdds == 2
MaxThreads == 2
MaxShared == 1

\* ---- program constants ----
NULL == 0
DQ == 1
START == 1
END == 2

NullStr == "<NULL>"
Tags == {"", "a", "b"}
TagArgs == Tags \cup {NullStr}
AddTags == {NullStr, "", "a"}
NodeIds == 1..(MaxNodes + 2)
Cells == 0..(MaxNodes + 2)
Threads == 1..MaxThreads
ThreadTag == <<"a", "b", "c", "d", "e">>

VARIABLES deque, node, value, tagmem, lock, pc, loc, iter, res, out,
          addLog, polled, removed, callerTags, hist, crashed, errs, actor

heapVars == <<deque, node, value, tagmem>>
logVars == <<addLog, polled, removed, callerTags>>
histVars == <<addLog, polled, removed, callerTags, hist>>
vars == <<deque, node, value, tagmem, lock, pc, loc, iter, res, out,
          addLog, polled, removed, callerTags, hist, crashed, errs, actor>>

\* ---- cells ----
NoNode == [st |-> "unalloc", next |-> NULL, prev |-> NULL, tag |-> NULL, data |-> NULL]
NoValue == [st |-> "unalloc", type |-> "ValueInt32", data |-> 0]
NoTag == [st |-> "unalloc", str |-> NullStr]
NoIter == [st |-> "none", cur |-> NULL, tag |-> NULL, value |-> NULL]
NoLoc == [op |-> "none", d |-> NULL, tag |-> NullStr, outp |-> FALSE, data |-> 0,
          n |-> NULL, last |-> NULL, head |-> NULL, val |-> NULL, tmp |-> 0,
          nx |-> NULL, retpc |-> "idle", str |-> <<>>, indent |-> 0,
          next_indent |-> 0, cnt |-> 0]
NoRes == [op |-> "none", val |-> 0, d |-> NULL, tag |-> NullStr, outp |-> FALSE, n |-> NULL,
          indent |-> 0]
NoPrev == [op |-> "none", val |-> 0, tag |-> NULL, outp |-> FALSE, x |-> NULL, y |-> NULL]

\* pgagroal_value_create: a value cell holding the raw data
pgagroal_value_create(type, data) == [st |-> "live", type |-> type, data |-> data]

\* pgagroal_value_data: the raw data a value cell holds
pgagroal_value_data(v) == value[v].data

\* pgagroal_compare_string: both null, or both non-null and equal
pgagroal_compare_string(s1, s2) ==
  IF s1 = NullStr /\ s2 = NullStr THEN TRUE
  ELSE IF s1 = NullStr \/ s2 = NullStr THEN FALSE
  ELSE s1 = s2

\* the string a tag pointer refers to
TagStr(p) == IF p = NULL THEN NullStr ELSE tagmem[p].str

\* deque_node_create: zeroed node, a fresh value cell, a copy of the tag
deque_node_create(data, type, tag, n) ==
  /\ node' = [node EXCEPT ![n] = [st |-> "live", next |-> NULL, prev |-> NULL,
                                  tag |-> IF tag = NullStr THEN NULL ELSE n,
                                  data |-> n]]
  /\ value' = [value EXCEPT ![n] = pgagroal_value_create(type, data)]
  /\ tagmem' = IF tag = NullStr THEN tagmem
               ELSE [tagmem EXCEPT ![n] = [st |-> "live", str |-> tag]]

\* malloc: the lowest cell never handed out
Unalloc == {n \in NodeIds : node[n].st = "unalloc"}
NewNode == CHOOSE n \in Unalloc : \A m \in Unalloc : n <= m

\* free(p): no effect on NULL; freeing a freed cell is a double free
FreeOf(mem, p) == IF p = NULL THEN mem ELSE [mem EXCEPT ![p].st = "freed"]
DoubleFree(mem, p) == p # NULL /\ mem[p].st # "live"

\* the outcome of a step's memory accesses: a null dereference faults; a use
\* of freed memory or a double free either goes on with the cell as it was
\* left or faults
Fault(null, stale, dbl) ==
  /\ errs' = errs \cup (IF null THEN {"null_deref"} ELSE {})
                  \cup (IF stale THEN {"uaf"} ELSE {})
                  \cup (IF dbl THEN {"double_free"} ELSE {})
  /\ crashed' \in (IF null THEN {TRUE} ELSE IF stale \/ dbl THEN BOOLEAN ELSE {FALSE})

StaleNode(ps) == \E p \in ps : p # NULL /\ node[p].st # "live"
StaleValue(v) == v # NULL /\ value[v].st # "live"

\* a step dereferences the node pointers ps
Deref(ps) == Fault(NULL \in ps, StaleNode(ps), FALSE)

NoDeref == UNCHANGED <<crashed, errs>>

\* ---- the reader/writer lock ----
\* deque_read_lock
deque_read_lock(t, d) ==
  IF d = NULL \/ ~deque.thread_safe THEN UNCHANGED lock
  ELSE /\ lock.w = NULL
       /\ lock' = [lock EXCEPT !.r = @ \cup {t}]

\* deque_write_lock
deque_write_lock(t, d) ==
  IF d = NULL \/ ~deque.thread_safe THEN UNCHANGED lock
  ELSE /\ lock.w = NULL /\ lock.r = {}
       /\ lock' = [lock EXCEPT !.w = t]

\* deque_unlock
deque_unlock(t, d) ==
  IF d = NULL \/ ~deque.thread_safe THEN UNCHANGED lock
  ELSE lock' = [w |-> IF lock.w = t THEN NULL ELSE lock.w, r |-> lock.r \ {t}]

\* ---- control ----
At(t, l) == /\ ~crashed
            /\ pc[t] = l
            /\ actor' = t

Goto(t, l) == pc' = [pc EXCEPT ![t] = l]

CanCall(t) == /\ ~crashed
              /\ pc[t] = "idle"
              /\ deque.st = "live"
              /\ actor' = t

Call(t, l, locals) == /\ pc' = [pc EXCEPT ![t] = l]
                      /\ loc' = [loc EXCEPT ![t] = locals]
                      /\ res' = [res EXCEPT ![t] = NoRes]
                      /\ out' = [out EXCEPT ![t] = NULL]

\* a call that returns before touching shared memory
CallReturn(t, op, v) == /\ res' = [res EXCEPT ![t] = [NoRes EXCEPT !.op = op, !.val = v]]
                        /\ out' = [out EXCEPT ![t] = NULL]
                        /\ UNCHANGED <<pc, loc>>

\* the return of a call, n being the node it acted on
ReturnNode(t, v, n) ==
  /\ pc' = [pc EXCEPT ![t] = "idle"]
  /\ res' = [res EXCEPT ![t] = [op |-> loc[t].op, val |-> v, d |-> loc[t].d,
                                 tag |-> loc[t].tag, outp |-> loc[t].outp, n |-> n,
                                 indent |-> loc[t].indent]]
  /\ loc' = [loc EXCEPT ![t] = NoLoc]

Return(t, v) == ReturnNode(t, v, NULL)

\* ---- Init: the state pgagroal_deque_create leaves ----
pgagroal_deque_create(thread_safe) ==
  /\ deque = [st |-> "live", size |-> 0, thread_safe |-> thread_safe,
              start |-> START, end |-> END]
  /\ node = [n \in Cells |->
               IF n = START THEN [st |-> "live", next |-> END, prev |-> NULL, tag |-> NULL, data |-> START]
               ELSE IF n = END THEN [st |-> "live", next |-> NULL, prev |-> START, tag |-> NULL, data |-> END]
               ELSE NoNode]
  /\ value = [n \in Cells |-> IF n \in {START, END}
                                THEN pgagroal_value_create("ValueInt32", 0) ELSE NoValue]
  /\ tagmem = [n \in Cells |-> NoTag]
  /\ lock = [w |-> NULL, r |-> {}]

InitRest ==
  /\ pc = [t \in Threads |-> "idle"]
  /\ loc = [t \in Threads |-> NoLoc]
  /\ iter = [t \in Threads |-> NoIter]
  /\ res = [t \in Threads |-> NoRes]
  /\ out = [t \in Threads |-> NULL]
  /\ addLog = <<>>
  /\ polled = {}
  /\ removed = {}
  /\ hist = NoPrev
  /\ callerTags = {}
  /\ crashed = FALSE
  /\ errs = {}
  /\ actor = 1

Init == /\ \E ts \in BOOLEAN : pgagroal_deque_create(ts)
        /\ InitRest

\* a deque created with thread_safe = true
InitTS == /\ pgagroal_deque_create(TRUE)
          /\ InitRest

\* ---- pgagroal_deque_add / deque_offer ----
pgagroal_deque_add(t, d, tag, data) ==
  /\ CanCall(t)
  /\ Unalloc # {}
  /\ Call(t, "offer_create", [NoLoc EXCEPT !.op = "add", !.d = d, !.tag = tag, !.data = data])
  /\ addLog' = IF d = NULL THEN addLog ELSE Append(addLog, [data |-> data, tag |-> tag])
  /\ hist' = NoPrev
  /\ UNCHANGED <<heapVars, lock, iter, polled, removed, callerTags, crashed, errs>>

deque_offer_create(t) ==
  /\ At(t, "offer_create")
  /\ deque_node_create(loc[t].data, "ValueInt32", loc[t].tag, NewNode)
  /\ loc' = [loc EXCEPT ![t].n = NewNode]
  /\ Goto(t, "offer_lock")
  /\ UNCHANGED <<deque, lock, iter, res, out, histVars, crashed, errs>>

\* faulty variant: the splice is done without the writer lock
deque_offer_lock_skip(t) ==
  /\ At(t, "offer_lock")
  /\ Goto(t, "offer_size_ld")
  /\ UNCHANGED <<heapVars, lock, loc, iter, res, out, histVars, crashed, errs>>

deque_offer_lock(t) ==
  /\ At(t, "offer_lock")
  /\ deque_write_lock(t, loc[t].d)
  /\ Goto(t, "offer_size_ld")
  /\ UNCHANGED <<heapVars, loc, iter, res, out, histVars, crashed, errs>>

\* deque->size++ reads the counter ...
deque_offer_size_ld(t) ==
  /\ At(t, "offer_size_ld")
  /\ IF loc[t].d = NULL
     THEN /\ errs' = errs \cup {"null_deref"}
          /\ crashed' = TRUE
          /\ UNCHANGED loc
     ELSE /\ loc' = [loc EXCEPT ![t].tmp = deque.size]
          /\ NoDeref
  /\ Goto(t, "offer_size_st")
  /\ UNCHANGED <<heapVars, lock, iter, res, out, histVars>>

\* ... and writes it back incremented.  The uint32_t counter is kept as the
\* two's-complement reading of its 32 bits: 0 - 1 is -1, the bit pattern of
\* 4294967295, and -1 + 1 is 0 again
deque_offer_size_st(t) ==
  /\ At(t, "offer_size_st")
  /\ deque' = [deque EXCEPT !.size = loc[t].tmp + 1]
  /\ Goto(t, "offer_last")
  /\ UNCHANGED <<node, value, tagmem, lock, loc, iter, res, out, histVars, crashed, errs>>

\* last = deque->end->prev; last->next = n
deque_offer_last(t) ==
  /\ At(t, "offer_last")
  /\ LET last == node[deque.end].prev IN
       /\ loc' = [loc EXCEPT ![t].last = last]
       /\ node' = [node EXCEPT ![last].next = loc[t].n]
       /\ Deref({deque.end, last})
  /\ Goto(t, "offer_link")
  /\ UNCHANGED <<deque, value, tagmem, lock, iter, res, out, histVars>>

\* n->prev = last; n->next = deque->end
deque_offer_link(t) ==
  /\ At(t, "offer_link")
  /\ node' = [node EXCEPT ![loc[t].n].prev = loc[t].last, ![loc[t].n].next = deque.end]
  /\ Goto(t, "offer_end")
  /\ UNCHANGED <<deque, value, tagmem, lock, loc, iter, res, out, histVars, crashed, errs>>

\* deque->end->prev = n
deque_offer_end(t) ==
  /\ At(t, "offer_end")
  /\ node' = [node EXCEPT ![deque.end].prev = loc[t].n]
  /\ Goto(t, "offer_unlock")
  /\ UNCHANGED <<deque, value, tagmem, lock, loc, iter, res, out, histVars, crashed, errs>>

deque_offer_unlock(t) ==
  /\ At(t, "offer_unlock")
  /\ deque_unlock(t, loc[t].d)
  /\ Return(t, 0)
  /\ UNCHANGED <<heapVars, iter, out, histVars, crashed, errs>>

\* ---- pgagroal_deque_size ----
pgagroal_deque_size(t, d) ==
  /\ CanCall(t)
  /\ IF d = NULL
     THEN CallReturn(t, "size", 0)
     ELSE Call(t, "size_lock", [NoLoc EXCEPT !.op = "size", !.d = d, !.retpc = "size_ret"])
  /\ hist' = NoPrev
  /\ UNCHANGED <<heapVars, lock, iter, logVars, crashed, errs>>

deque_size_lock(t) ==
  /\ At(t, "size_lock")
  /\ deque_read_lock(t, loc[t].d)
  /\ Goto(t, "size_read")
  /\ UNCHANGED <<heapVars, loc, iter, res, out, histVars, crashed, errs>>

deque_size_read(t) ==
  /\ At(t, "size_read")
  /\ loc' = [loc EXCEPT ![t].tmp = deque.size]
  /\ Goto(t, "size_unlock")
  /\ UNCHANGED <<heapVars, lock, iter, res, out, histVars, crashed, errs>>

deque_size_unlock(t) ==
  /\ At(t, "size_unlock")
  /\ deque_unlock(t, loc[t].d)
  /\ Goto(t, loc[t].retpc)
  /\ UNCHANGED <<heapVars, loc, iter, res, out, histVars, crashed, errs>>

deque_size_ret(t) ==
  /\ At(t, "size_ret")
  /\ Return(t, loc[t].tmp)
  /\ UNCHANGED <<heapVars, lock, iter, out, histVars, crashed, errs>>

\* ---- pgagroal_deque_poll ----
\* outp: whether the caller passes the address of its tag variable out[t]
pgagroal_deque_poll(t, d, outp) ==
  /\ CanCall(t)
  /\ IF d = NULL
     THEN CallReturn(t, "poll", 0)
     ELSE Call(t, "size_lock", [NoLoc EXCEPT !.op = "poll", !.d = d, !.outp = outp,
                                             !.retpc = "poll_sz"])
  /\ hist' = IF res[t].op = "peek" /\ hist.op = "peek" THEN hist ELSE NoPrev
  /\ UNCHANGED <<heapVars, lock, iter, logVars, crashed, errs>>

\* pgagroal_deque_size(deque) == 0: return 0
deque_poll_sz(t) ==
  /\ At(t, "poll_sz")
  /\ IF loc[t].tmp = 0
     THEN Return(t, 0)
     ELSE Goto(t, "poll_lock") /\ UNCHANGED <<loc, res>>
  /\ UNCHANGED <<heapVars, lock, iter, out, histVars, crashed, errs>>

deque_poll_lock(t) ==
  /\ At(t, "poll_lock")
  /\ deque_write_lock(t, loc[t].d)
  /\ Goto(t, "poll_head")
  /\ UNCHANGED <<heapVars, loc, iter, res, out, histVars, crashed, errs>>

\* faulty variant: poll takes the node at the back
deque_poll_head_back(t) ==
  /\ At(t, "poll_head")
  /\ LET head == node[deque.end].prev IN
       /\ loc' = [loc EXCEPT ![t].head = head]
       /\ Goto(t, IF head = deque.start THEN "poll_unlock0" ELSE "poll_unlink1")
  /\ Deref({deque.end})
  /\ UNCHANGED <<heapVars, lock, iter, res, out, histVars>>

\* faulty variant: poll without the test for the back sentinel
deque_poll_head_nocheck(t) ==
  /\ At(t, "poll_head")
  /\ loc' = [loc EXCEPT ![t].head = node[deque.start].next]
  /\ Goto(t, "poll_unlink1")
  /\ Deref({deque.start})
  /\ UNCHANGED <<heapVars, lock, iter, res, out, histVars>>

\* head = deque->start->next; if (head == deque->end)
deque_poll_head(t) ==
  /\ At(t, "poll_head")
  /\ LET head == node[deque.start].next IN
       /\ loc' = [loc EXCEPT ![t].head = head]
       /\ Goto(t, IF head = deque.end THEN "poll_unlock0" ELSE "poll_unlink1")
  /\ Deref({deque.start})
  /\ UNCHANGED <<heapVars, lock, iter, res, out, histVars>>

deque_poll_unlock0(t) ==
  /\ At(t, "poll_unlock0")
  /\ deque_unlock(t, loc[t].d)
  /\ Return(t, 0)
  /\ UNCHANGED <<heapVars, iter, out, histVars, crashed, errs>>

\* deque->start->next = head->next
deque_poll_unlink1(t) ==
  /\ At(t, "poll_unlink1")
  /\ node' = [node EXCEPT ![deque.start].next = node[loc[t].head].next]
  /\ Deref({deque.start, loc[t].head})
  /\ Goto(t, "poll_unlink2")
  /\ UNCHANGED <<deque, value, tagmem, lock, loc, iter, res, out, histVars>>

\* head->next->prev = deque->start
deque_poll_unlink2(t) ==
  /\ At(t, "poll_unlink2")
  /\ node' = [node EXCEPT ![node[loc[t].head].next].prev = deque.start]
  /\ Deref({loc[t].head, node[loc[t].head].next})
  /\ Goto(t, "poll_size_ld")
  /\ UNCHANGED <<deque, value, tagmem, lock, loc, iter, res, out, histVars>>

\* deque->size-- reads the counter ...
deque_poll_size_ld(t) ==
  /\ At(t, "poll_size_ld")
  /\ loc' = [loc EXCEPT ![t].tmp = deque.size]
  /\ Goto(t, "poll_size_st")
  /\ UNCHANGED <<heapVars, lock, iter, res, out, histVars, crashed, errs>>

\* faulty variant: poll leaves the counter as it is
deque_poll_size_st_skip(t) ==
  /\ At(t, "poll_size_st")
  /\ Goto(t, "poll_val")
  /\ UNCHANGED <<heapVars, lock, loc, iter, res, out, histVars, crashed, errs>>

\* ... and writes it back decremented
deque_poll_size_st(t) ==
  /\ At(t, "poll_size_st")
  /\ deque' = [deque EXCEPT !.size = loc[t].tmp - 1]
  /\ Goto(t, "poll_val")
  /\ UNCHANGED <<node, value, tagmem, lock, loc, iter, res, out, histVars, crashed, errs>>

\* val = head->data; if (tag != NULL) *tag = head->tag
deque_poll_val(t) ==
  /\ At(t, "poll_val")
  /\ LET head == loc[t].head IN
       /\ loc' = [loc EXCEPT ![t].val = node[head].data]
       /\ IF loc[t].outp
          THEN /\ out' = [out EXCEPT ![t] = node[head].tag]
               /\ callerTags' = callerTags \cup ({node[head].tag} \ {NULL})
          ELSE UNCHANGED <<out, callerTags>>
       /\ Deref({head})
  /\ Goto(t, "poll_free_head")
  /\ UNCHANGED <<heapVars, lock, iter, res, addLog, polled, removed, hist>>

\* free(head)
deque_poll_free_head(t) ==
  /\ At(t, "poll_free_head")
  /\ node' = FreeOf(node, loc[t].head)
  /\ Fault(FALSE, FALSE, DoubleFree(node, loc[t].head))
  /\ Goto(t, "poll_data")
  /\ UNCHANGED <<deque, value, tagmem, lock, loc, iter, res, out, histVars>>

\* data = pgagroal_value_data(val)
deque_poll_data(t) ==
  /\ At(t, "poll_data")
  /\ loc' = [loc EXCEPT ![t].data = pgagroal_value_data(loc[t].val)]
  /\ Fault(loc[t].val = NULL, StaleValue(loc[t].val), FALSE)
  /\ Goto(t, "poll_free_val")
  /\ UNCHANGED <<heapVars, lock, iter, res, out, histVars>>

\* free(val)
deque_poll_free_val(t) ==
  /\ At(t, "poll_free_val")
  /\ value' = FreeOf(value, loc[t].val)
  /\ Fault(FALSE, FALSE, DoubleFree(value, loc[t].val))
  /\ Goto(t, "poll_unlock")
  /\ UNCHANGED <<deque, node, tagmem, lock, loc, iter, res, out, histVars>>

deque_poll_unlock(t) ==
  /\ At(t, "poll_unlock")
  /\ deque_unlock(t, loc[t].d)
  /\ ReturnNode(t, loc[t].data, loc[t].head)
  /\ polled' = polled \cup {loc[t].head}
  /\ UNCHANGED <<heapVars, iter, out, addLog, removed, callerTags, hist, crashed, errs>>

\* ---- pgagroal_deque_peek ----
pgagroal_deque_peek(t, d, outp) ==
  /\ CanCall(t)
  /\ IF d = NULL
     THEN CallReturn(t, "peek", 0)
     ELSE Call(t, "size_lock", [NoLoc EXCEPT !.op = "peek", !.d = d, !.outp = outp,
                                             !.retpc = "peek_sz"])
  /\ hist' = IF res[t].op = "peek" /\ hist.op = "peek" THEN hist ELSE NoPrev
  /\ UNCHANGED <<heapVars, lock, iter, logVars, crashed, errs>>

deque_peek_sz(t) ==
  /\ At(t, "peek_sz")
  /\ IF loc[t].tmp = 0
     THEN Return(t, 0)
     ELSE Goto(t, "peek_lock") /\ UNCHANGED <<loc, res>>
  /\ UNCHANGED <<heapVars, lock, iter, out, histVars, crashed, errs>>

deque_peek_lock(t) ==
  /\ At(t, "peek_lock")
  /\ deque_read_lock(t, loc[t].d)
  /\ Goto(t, "peek_head")
  /\ UNCHANGED <<heapVars, loc, iter, res, out, histVars, crashed, errs>>

\* faulty variant: peek reads the node at the back
deque_peek_head_back(t) ==
  /\ At(t, "peek_head")
  /\ LET head == node[deque.end].prev IN
       /\ loc' = [loc EXCEPT ![t].head = head]
       /\ Goto(t, IF head = deque.start THEN "peek_unlock0" ELSE "peek_val")
  /\ Deref({deque.end})
  /\ UNCHANGED <<heapVars, lock, iter, res, out, histVars>>

deque_peek_head(t) ==
  /\ At(t, "peek_head")
  /\ LET head == node[deque.start].next IN
       /\ loc' = [loc EXCEPT ![t].head = head]
       /\ Goto(t, IF head = deque.end THEN "peek_unlock0" ELSE "peek_val")
  /\ Deref({deque.start})
  /\ UNCHANGED <<heapVars, lock, iter, res, out, histVars>>

deque_peek_unlock0(t) ==
  /\ At(t, "peek_unlock0")
  /\ deque_unlock(t, loc[t].d)
  /\ Return(t, 0)
  /\ UNCHANGED <<heapVars, iter, out, histVars, crashed, errs>>

\* val = head->data; if (tag != NULL) *tag = head->tag
deque_peek_val(t) ==
  /\ At(t, "peek_val")
  /\ LET head == loc[t].head IN
       /\ loc' = [loc EXCEPT ![t].val = node[head].data]
       /\ out' = IF loc[t].outp THEN [out EXCEPT ![t] = node[head].tag] ELSE out
       /\ Deref({head})
  /\ Goto(t, "peek_unlock")
  /\ UNCHANGED <<heapVars, lock, iter, res, histVars>>

deque_peek_unlock(t) ==
  /\ At(t, "peek_unlock")
  /\ deque_unlock(t, loc[t].d)
  /\ Goto(t, "peek_data")
  /\ UNCHANGED <<heapVars, loc, iter, res, out, histVars, crashed, errs>>

\* return pgagroal_value_data(val), after the unlock
deque_peek_data(t) ==
  /\ At(t, "peek_data")
  /\ ReturnNode(t, pgagroal_value_data(loc[t].val), loc[t].head)
  /\ Fault(loc[t].val = NULL, StaleValue(loc[t].val), FALSE)
  /\ hist' = IF hist.op = "peek" THEN hist
             ELSE [NoPrev EXCEPT !.op = "peek", !.val = pgagroal_value_data(loc[t].val),
                                 !.tag = out[t], !.outp = loc[t].outp]
  /\ UNCHANGED <<heapVars, lock, iter, out, logVars>>

\* faulty variant: the back sentinel is handed out as a node
deque_next_noend(d, n) ==
  IF d = NULL \/ deque.size = 0 \/ n = NULL THEN NULL
  ELSE node[n].next

\* ---- deque_next / deque_find / pgagroal_deque_get ----
deque_next(d, n) ==
  IF d = NULL \/ deque.size = 0 \/ n = NULL THEN NULL
  ELSE IF node[n].next = deque.end THEN NULL
  ELSE node[n].next

pgagroal_deque_get(t, d, tag) ==
  /\ CanCall(t)
  /\ Call(t, "get_lock", [NoLoc EXCEPT !.op = "get", !.d = d, !.tag = tag])
  /\ hist' = NoPrev
  /\ UNCHANGED <<heapVars, lock, iter, logVars, crashed, errs>>

deque_get_lock(t) ==
  /\ At(t, "get_lock")
  /\ deque_read_lock(t, loc[t].d)
  /\ Goto(t, "get_find")
  /\ UNCHANGED <<heapVars, loc, iter, res, out, histVars, crashed, errs>>

\* faulty variant: the guard without the strlen(tag) == 0 test
deque_find_first_noguard(t) ==
  /\ At(t, "get_find")
  /\ IF loc[t].tag = NullStr \/ loc[t].d = NULL \/ deque.size = 0
     THEN /\ loc' = [loc EXCEPT ![t].n = NULL]
          /\ NoDeref
     ELSE /\ loc' = [loc EXCEPT ![t].n = deque_next(loc[t].d, deque.start)]
          /\ Deref({deque.start})
  /\ Goto(t, "get_loop")
  /\ UNCHANGED <<heapVars, lock, iter, res, out, histVars>>

\* deque_find: the guard, then n = deque_next(deque, deque->start)
deque_find_first(t) ==
  /\ At(t, "get_find")
  /\ IF loc[t].tag = NullStr \/ Len(loc[t].tag) = 0 \/ loc[t].d = NULL \/ deque.size = 0
     THEN /\ loc' = [loc EXCEPT ![t].n = NULL]
          /\ NoDeref
     ELSE /\ loc' = [loc EXCEPT ![t].n = deque_next(loc[t].d, deque.start)]
          /\ Deref({deque.start})
  /\ Goto(t, "get_loop")
  /\ UNCHANGED <<heapVars, lock, iter, res, out, histVars>>

\* deque_find: while (n != NULL) compare, else n = deque_next(deque, n)
deque_find_loop(t) ==
  /\ At(t, "get_loop")
  /\ LET n == loc[t].n IN
       IF n = NULL
       THEN Goto(t, "get_miss") /\ UNCHANGED loc /\ NoDeref
       ELSE /\ Deref({n})
            /\ IF pgagroal_compare_string(loc[t].tag, TagStr(node[n].tag))
               THEN Goto(t, "get_data") /\ UNCHANGED loc
               ELSE /\ loc' = [loc EXCEPT ![t].n = deque_next(loc[t].d, n)]
                    /\ UNCHANGED pc
  /\ UNCHANGED <<heapVars, lock, iter, res, out, histVars>>

\* ret = pgagroal_value_data(n->data)
deque_get_data(t) ==
  /\ At(t, "get_data")
  /\ loc' = [loc EXCEPT ![t].data = pgagroal_value_data(node[loc[t].n].data)]
  /\ Fault(FALSE, StaleNode({loc[t].n}) \/ StaleValue(node[loc[t].n].data), FALSE)
  /\ Goto(t, "get_unlock")
  /\ UNCHANGED <<heapVars, lock, iter, res, out, histVars>>

deque_get_unlock(t) ==
  /\ At(t, "get_unlock")
  /\ deque_unlock(t, loc[t].d)
  /\ ReturnNode(t, loc[t].data, loc[t].n)
  /\ UNCHANGED <<heapVars, iter, out, histVars, crashed, errs>>

\* faulty variant: the miss path returns without releasing the lock
deque_get_miss_nounlock(t) ==
  /\ At(t, "get_miss")
  /\ Return(t, 0)
  /\ UNCHANGED <<heapVars, lock, iter, out, histVars, crashed, errs>>

\* error: deque_unlock(deque); return 0
deque_get_miss(t) ==
  /\ At(t, "get_miss")
  /\ deque_unlock(t, loc[t].d)
  /\ Return(t, 0)
  /\ UNCHANGED <<heapVars, iter, out, histVars, crashed, errs>>

\* ---- pgagroal_deque_empty ----
pgagroal_deque_empty(t, d) ==
  /\ CanCall(t)
  /\ IF d = NULL
     THEN CallReturn(t, "empty", TRUE)
     ELSE Call(t, "size_lock", [NoLoc EXCEPT !.op = "empty", !.d = d, !.retpc = "empty_ret"])
  /\ hist' = NoPrev
  /\ UNCHANGED <<heapVars, lock, iter, logVars, crashed, errs>>

deque_empty_ret(t) ==
  /\ At(t, "empty_ret")
  /\ Return(t, loc[t].tmp = 0)
  /\ UNCHANGED <<heapVars, lock, iter, out, histVars, crashed, errs>>

\* faulty variant: the node's tag is not freed
deque_node_destroy_keep_tag(n) ==
  /\ value' = FreeOf(value, node[n].data)
  /\ UNCHANGED tagmem
  /\ node' = FreeOf(node, n)
  /\ Fault(FALSE, StaleNode({n}), DoubleFree(value, node[n].data) \/ DoubleFree(node, n))

\* ---- deque_node_destroy ----
\* pgagroal_value_destroy(node->data); free(node->tag); free(node)
deque_node_destroy(n) ==
  /\ value' = FreeOf(value, node[n].data)
  /\ tagmem' = FreeOf(tagmem, node[n].tag)
  /\ node' = FreeOf(node, n)
  /\ Fault(FALSE, StaleNode({n}),
           DoubleFree(value, node[n].data) \/ DoubleFree(tagmem, node[n].tag)
             \/ DoubleFree(node, n))

\* ---- the iterator ----
\* live: whether the caller passes its iterator iter[t] or a null pointer
pgagroal_deque_iterator_create(t, d) ==
  /\ CanCall(t)
  /\ iter[t].st = "none"
  /\ IF d = NULL
     THEN CallReturn(t, "iterator_create", 1) /\ UNCHANGED iter
     ELSE /\ iter' = [iter EXCEPT ![t] = [st |-> "live", cur |-> deque.start,
                                          tag |-> NULL, value |-> NULL]]
          /\ CallReturn(t, "iterator_create", 0)
  /\ hist' = NoPrev
  /\ UNCHANGED <<heapVars, lock, logVars, crashed, errs>>

pgagroal_deque_iterator_destroy(t, live) ==
  /\ CanCall(t)
  /\ live => iter[t].st = "live"
  /\ iter' = IF live THEN [iter EXCEPT ![t] = NoIter] ELSE iter
  /\ CallReturn(t, "iterator_destroy", 0)
  /\ hist' = NoPrev
  /\ UNCHANGED <<heapVars, lock, logVars, crashed, errs>>

\* the cursor refers to no node that was freed behind the iterator's back
CursorValid(t) == iter[t].cur = NULL \/ node[iter[t].cur].st = "live"

pgagroal_deque_iterator_next(t, live) ==
  /\ CanCall(t)
  /\ live => iter[t].st = "live"
  /\ IF ~live
     THEN CallReturn(t, "iterator_next", FALSE)
     ELSE Call(t, "next_adv", [NoLoc EXCEPT !.op = "iterator_next", !.d = DQ])
  /\ hist' = IF res[t].op = "iterator_remove" /\ hist.op = "iterator_remove" /\ live
             THEN hist ELSE NoPrev
  /\ UNCHANGED <<heapVars, lock, iter, logVars, crashed, errs>>

\* faulty variant: at the end the cursor is left where it was
deque_iterator_next_adv_keep(t) ==
  /\ At(t, "next_adv")
  /\ LET c == deque_next(loc[t].d, iter[t].cur) IN
       IF c = NULL
       THEN Return(t, FALSE) /\ UNCHANGED iter
       ELSE /\ iter' = [iter EXCEPT ![t].cur = c]
            /\ Goto(t, "next_set") /\ UNCHANGED <<loc, res>>
  /\ IF deque.size = 0 \/ iter[t].cur = NULL THEN NoDeref ELSE Deref({iter[t].cur})
  /\ UNCHANGED <<heapVars, lock, out, histVars>>

\* iter->cur = deque_next(iter->deque, iter->cur); if (iter->cur == NULL) return false
deque_iterator_next_adv(t) ==
  /\ At(t, "next_adv")
  /\ LET c == deque_next(loc[t].d, iter[t].cur) IN
       /\ iter' = [iter EXCEPT ![t].cur = c]
       /\ IF c = NULL
          THEN Return(t, FALSE)
          ELSE Goto(t, "next_set") /\ UNCHANGED <<loc, res>>
  /\ IF deque.size = 0 \/ iter[t].cur = NULL THEN NoDeref ELSE Deref({iter[t].cur})
  /\ UNCHANGED <<heapVars, lock, out, histVars>>

\* iter->value = iter->cur->data; iter->tag = iter->cur->tag; return true
deque_iterator_next_set(t) ==
  /\ At(t, "next_set")
  /\ iter' = [iter EXCEPT ![t].value = node[iter[t].cur].data,
                          ![t].tag = node[iter[t].cur].tag]
  /\ Deref({iter[t].cur})
  /\ Return(t, TRUE)
  /\ UNCHANGED <<heapVars, lock, out, histVars>>

\* faulty variant: the guard does not test for the front sentinel
pgagroal_deque_iterator_remove_nostart(t, live) ==
  /\ CanCall(t)
  /\ live => iter[t].st = "live"
  /\ IF ~live \/ iter[t].cur = NULL \/ iter[t].cur = deque.end
     THEN CallReturn(t, "iterator_remove", 0)
     ELSE Call(t, "rm_read", [NoLoc EXCEPT !.op = "iterator_remove", !.d = DQ,
                                           !.n = iter[t].cur])
  /\ hist' = NoPrev
  /\ UNCHANGED <<heapVars, lock, iter, logVars, crashed, errs>>

pgagroal_deque_iterator_remove(t, live) ==
  /\ CanCall(t)
  /\ live => iter[t].st = "live"
  /\ IF ~live \/ iter[t].cur = NULL \/ iter[t].cur = deque.start \/ iter[t].cur = deque.end
     THEN CallReturn(t, "iterator_remove", 0)
     ELSE Call(t, "rm_read", [NoLoc EXCEPT !.op = "iterator_remove", !.d = DQ,
                                           !.n = iter[t].cur])
  /\ hist' = IF ~live \/ iter[t].cur \in {NULL, deque.start, deque.end} THEN NoPrev
             ELSE [NoPrev EXCEPT !.op = "iterator_remove", !.x = iter[t].cur,
                                 !.y = node[iter[t].cur].next]
  /\ UNCHANGED <<heapVars, lock, iter, logVars, crashed, errs>>

\* deque_remove: a null or sentinel node is refused (return NULL); otherwise
\* prev = node->prev; next = node->next
deque_remove_read(t) ==
  /\ At(t, "rm_read")
  /\ IF loc[t].d = NULL \/ loc[t].n \in {NULL, deque.start, deque.end}
     THEN /\ loc' = [loc EXCEPT ![t].last = NULL, ![t].n = NULL]
          /\ NoDeref
          /\ Goto(t, "rm_set")
     ELSE /\ loc' = [loc EXCEPT ![t].last = node[loc[t].n].prev,
                                ![t].nx = node[loc[t].n].next]
          /\ Deref({loc[t].n})
          /\ Goto(t, "rm_link1")
  /\ UNCHANGED <<heapVars, lock, iter, res, out, histVars>>

\* prev->next = next
deque_remove_link1(t) ==
  /\ At(t, "rm_link1")
  /\ node' = [node EXCEPT ![loc[t].last].next = loc[t].nx]
  /\ Deref({loc[t].last})
  /\ Goto(t, "rm_link2")
  /\ UNCHANGED <<deque, value, tagmem, lock, loc, iter, res, out, histVars>>

\* faulty variant: the successor's prev link is left on the removed node
deque_remove_link2_skip(t) ==
  /\ At(t, "rm_link2")
  /\ Goto(t, "rm_destroy")
  /\ UNCHANGED <<heapVars, lock, loc, iter, res, out, histVars, crashed, errs>>

\* next->prev = prev
deque_remove_link2(t) ==
  /\ At(t, "rm_link2")
  /\ node' = [node EXCEPT ![loc[t].nx].prev = loc[t].last]
  /\ Deref({loc[t].nx})
  /\ Goto(t, "rm_destroy")
  /\ UNCHANGED <<deque, value, tagmem, lock, loc, iter, res, out, histVars>>

\* deque_node_destroy(node)
deque_remove_destroy(t) ==
  /\ At(t, "rm_destroy")
  /\ deque_node_destroy(loc[t].n)
  /\ Goto(t, "rm_size_ld")
  /\ UNCHANGED <<deque, lock, loc, iter, res, out, histVars>>

\* deque->size-- reads the counter ...
deque_remove_size_ld(t) ==
  /\ At(t, "rm_size_ld")
  /\ loc' = [loc EXCEPT ![t].tmp = deque.size]
  /\ Goto(t, "rm_size_st")
  /\ UNCHANGED <<heapVars, lock, iter, res, out, histVars, crashed, errs>>

\* ... and writes it back decremented
deque_remove_size_st(t) ==
  /\ At(t, "rm_size_st")
  /\ deque' = [deque EXCEPT !.size = loc[t].tmp - 1]
  /\ Goto(t, "rm_set")
  /\ UNCHANGED <<node, value, tagmem, lock, loc, iter, res, out, histVars, crashed, errs>>

\* faulty variant: the cursor is left on the removed node's successor
deque_iterator_remove_set_next(t) ==
  /\ At(t, "rm_set")
  /\ iter' = [iter EXCEPT ![t] = [st |-> "live", cur |-> loc[t].nx,
                                  tag |-> node[loc[t].nx].tag,
                                  value |-> node[loc[t].nx].data]]
  /\ Deref({loc[t].nx})
  /\ removed' = removed \cup {loc[t].n}
  /\ Return(t, 0)
  /\ UNCHANGED <<heapVars, lock, out, addLog, polled, callerTags, hist>>

\* faulty variant: the cursor is rewound but the exposed tag and value are
\* left as they were
deque_iterator_remove_set_stale(t) ==
  /\ At(t, "rm_set")
  /\ iter' = [iter EXCEPT ![t].cur = loc[t].last]
  /\ NoDeref
  /\ removed' = removed \cup ({loc[t].n} \ {NULL})
  /\ Return(t, 0)
  /\ UNCHANGED <<heapVars, lock, out, addLog, polled, callerTags, hist>>

\* iter->cur = prev; the exposed tag and value are cleared on the front
\* sentinel and are the predecessor's otherwise
deque_iterator_remove_set(t) ==
  /\ At(t, "rm_set")
  /\ LET prev == loc[t].last IN
       IF prev = deque.start
       THEN /\ iter' = [iter EXCEPT ![t] = [st |-> "live", cur |-> prev,
                                            tag |-> NULL, value |-> NULL]]
            /\ NoDeref
       ELSE /\ iter' = [iter EXCEPT ![t] = [st |-> "live", cur |-> prev,
                                            tag |-> node[prev].tag,
                                            value |-> node[prev].data]]
            /\ Deref({prev})
  /\ removed' = removed \cup ({loc[t].n} \ {NULL})
  /\ Return(t, 0)
  /\ UNCHANGED <<heapVars, lock, out, addLog, polled, callerTags, hist>>

\* ---- pgagroal_deque_destroy ----
pgagroal_deque_destroy(t, d) ==
  /\ CanCall(t)
  /\ IF d = NULL
     THEN CallReturn(t, "destroy", 0)
     ELSE Call(t, "destroy_loop", [NoLoc EXCEPT !.op = "destroy", !.d = d, !.n = deque.start])
  /\ hist' = NoPrev
  /\ UNCHANGED <<heapVars, lock, iter, logVars, crashed, errs>>

\* while (n != NULL) { next = n->next; deque_node_destroy(n); n = next; }
deque_destroy_loop(t) ==
  /\ At(t, "destroy_loop")
  /\ IF loc[t].n = NULL
     THEN /\ Goto(t, "destroy_free")
          /\ UNCHANGED <<loc, node, value, tagmem, crashed, errs>>
     ELSE /\ loc' = [loc EXCEPT ![t].n = node[loc[t].n].next]
          /\ deque_node_destroy(loc[t].n)
          /\ UNCHANGED pc
  /\ UNCHANGED <<deque, lock, iter, res, out, histVars>>

\* pthread_rwlock_destroy(&deque->mutex); free(deque)
deque_destroy_free(t) ==
  /\ At(t, "destroy_free")
  /\ deque' = [deque EXCEPT !.st = "freed"]
  /\ Return(t, 0)
  /\ UNCHANGED <<node, value, tagmem, lock, iter, out, histVars, crashed, errs>>

\* ---- strings and the serializers ----
\* a C string is the sequence of its characters; NULL is the empty sequence
\* to pgagroal_append
INDENT_PER_LEVEL == 2
BULLET_POINT == "- "

\* the characters of a tag of the model
Chars(s) == IF s = NullStr \/ s = "" THEN <<>>
            ELSE IF s = BULLET_POINT THEN <<"-", " ">>
            ELSE <<s>>

Spaces(n) == [i \in 1..n |-> " "]

\* pgagroal_append: the concatenation
pgagroal_append(str, cs) == str \o cs

\* pgagroal_indent: indent spaces, then the tag when there is one
pgagroal_indent(str, tag, indent) ==
  pgagroal_append(pgagroal_append(str, Spaces(indent)), Chars(tag))

\* pgagroal_value_to_string of an integer cell: indentation, tag, digits
pgagroal_value_to_string(v, format, t, indent) ==
  pgagroal_append(pgagroal_append(Spaces(indent), t), <<ToString(value[v].data)>>)

\* the first real node, as the chain stands
FirstReal == IF node[deque.start].next = deque.end THEN NULL ELSE node[deque.start].next

\* to_json_string up to the emptiness test
to_json_string(t, d, tag, indent) ==
  LET ret == pgagroal_indent(<<>>, tag, indent) IN
    IF d = NULL
    THEN /\ res' = [res EXCEPT ![t] = [NoRes EXCEPT !.op = "to_json", !.tag = tag,
                                                   !.indent = indent,
                                                   !.val = pgagroal_append(ret, <<"[", "]">>)]]
         /\ out' = [out EXCEPT ![t] = NULL]
         /\ UNCHANGED <<pc, loc>>
    ELSE Call(t, "size_lock", [NoLoc EXCEPT !.op = "to_json", !.d = d, !.tag = tag,
                                            !.indent = indent, !.str = ret,
                                            !.retpc = "json_empty"])

\* to_text_string up to the emptiness test
to_text_string(t, d, tag, indent) ==
  LET bullet == pgagroal_compare_string(tag, BULLET_POINT)
      label == tag # NullStr /\ ~bullet
      ret == IF label THEN pgagroal_indent(<<>>, tag, indent) ELSE <<>>
      next_indent == (IF bullet THEN 0 ELSE indent) + (IF label THEN INDENT_PER_LEVEL ELSE 0)
  IN IF d = NULL
     THEN /\ res' = [res EXCEPT ![t] = [NoRes EXCEPT !.op = "to_text", !.tag = tag,
                                                    !.indent = indent,
                                                    !.val = pgagroal_append(ret, <<"[", "]">>)]]
          /\ out' = [out EXCEPT ![t] = NULL]
          /\ UNCHANGED <<pc, loc>>
     ELSE Call(t, "size_lock", [NoLoc EXCEPT !.op = "to_text", !.d = d, !.tag = tag,
                                             !.indent = indent, !.str = ret,
                                             !.next_indent = next_indent,
                                             !.retpc = "text_empty"])

\* pgagroal_deque_to_string: the format selects the renderer
pgagroal_deque_to_string(t, d, format, tag, indent) ==
  /\ CanCall(t)
  /\ IF format = "FORMAT_JSON" THEN to_json_string(t, d, tag, indent)
     ELSE IF format = "FORMAT_TEXT" THEN to_text_string(t, d, tag, indent)
     ELSE CallReturn(t, "to_string", NullStr)
  /\ hist' = NoPrev
  /\ UNCHANGED <<heapVars, lock, iter, logVars, crashed, errs>>

\* if (pgagroal_deque_empty(deque)) return ret + "[]"
to_json_empty(t) ==
  /\ At(t, "json_empty")
  /\ IF loc[t].tmp = 0
     THEN /\ pc' = [pc EXCEPT ![t] = "idle"]
          /\ res' = [res EXCEPT ![t] = [NoRes EXCEPT !.op = "to_json", !.d = loc[t].d,
                                                    !.tag = loc[t].tag,
                                                    !.indent = loc[t].indent,
                                                    !.val = pgagroal_append(loc[t].str, <<"[", "]">>)]]
          /\ loc' = [loc EXCEPT ![t] = NoLoc]
     ELSE Goto(t, "json_lock") /\ UNCHANGED <<loc, res>>
  /\ UNCHANGED <<heapVars, lock, iter, out, histVars, crashed, errs>>

to_json_lock(t) ==
  /\ At(t, "json_lock")
  /\ deque_read_lock(t, loc[t].d)
  /\ Goto(t, "json_open")
  /\ UNCHANGED <<heapVars, loc, iter, res, out, histVars, crashed, errs>>

\* ret += "[\n"; cur = deque_next(deque, deque->start).  head records the
\* first real node the chain holds as the traversal starts
to_json_open(t) ==
  /\ At(t, "json_open")
  /\ loc' = [loc EXCEPT ![t].str = pgagroal_append(@, <<"[", "\n">>),
                        ![t].n = deque_next(loc[t].d, deque.start),
                        ![t].head = FirstReal]
  /\ Deref({deque.start})
  /\ Goto(t, "json_loop")
  /\ UNCHANGED <<heapVars, lock, iter, res, out, histVars>>

\* one turn of the loop: "tag: " when the node has a tag, the value, then
\* ",\n" or "\n"
to_json_loop(t) ==
  /\ At(t, "json_loop")
  /\ LET cur == loc[t].n IN
       IF cur = NULL
       THEN Goto(t, "json_close") /\ UNCHANGED loc /\ NoDeref
       ELSE LET has_next == node[cur].next # deque.end
                tt == IF node[cur].tag # NULL
                      THEN pgagroal_append(Chars(TagStr(node[cur].tag)), <<":", " ">>)
                      ELSE <<>>
                str == pgagroal_value_to_string(node[cur].data, "FORMAT_JSON", tt,
                                                loc[t].indent + INDENT_PER_LEVEL)
            IN /\ loc' = [loc EXCEPT
                            ![t].str = pgagroal_append(pgagroal_append(@, str),
                                          IF has_next THEN <<",", "\n">> ELSE <<"\n">>),
                            ![t].n = deque_next(loc[t].d, cur)]
               /\ Fault(FALSE, StaleNode({cur}) \/ StaleValue(node[cur].data), FALSE)
               /\ UNCHANGED pc
  /\ UNCHANGED <<heapVars, lock, iter, res, out, histVars>>

\* ret = pgagroal_indent(ret, NULL, indent); ret += "]"; deque_unlock(deque)
to_json_close(t) ==
  /\ At(t, "json_close")
  /\ deque_unlock(t, loc[t].d)
  /\ ReturnNode(t, pgagroal_append(pgagroal_indent(loc[t].str, NullStr, loc[t].indent), <<"]">>),
                loc[t].head)
  /\ UNCHANGED <<heapVars, iter, out, histVars, crashed, errs>>

\* if (pgagroal_deque_empty(deque)) return ret + "[]"
to_text_empty(t) ==
  /\ At(t, "text_empty")
  /\ IF loc[t].tmp = 0
     THEN /\ pc' = [pc EXCEPT ![t] = "idle"]
          /\ res' = [res EXCEPT ![t] = [NoRes EXCEPT !.op = "to_text", !.d = loc[t].d,
                                                    !.tag = loc[t].tag,
                                                    !.indent = loc[t].indent,
                                                    !.val = pgagroal_append(loc[t].str, <<"[", "]">>)]]
          /\ loc' = [loc EXCEPT ![t] = NoLoc]
     ELSE Goto(t, "text_lock") /\ UNCHANGED <<loc, res>>
  /\ UNCHANGED <<heapVars, lock, iter, out, histVars, crashed, errs>>

\* deque_read_lock(deque); cur = deque_next(deque, deque->start)
to_text_lock(t) ==
  /\ At(t, "text_lock")
  /\ deque_read_lock(t, loc[t].d)
  /\ Goto(t, "text_first")
  /\ UNCHANGED <<heapVars, loc, iter, res, out, histVars, crashed, errs>>

to_text_first(t) ==
  /\ At(t, "text_first")
  /\ loc' = [loc EXCEPT ![t].n = deque_next(loc[t].d, deque.start),
                        ![t].head = FirstReal]
  /\ Deref({deque.start})
  /\ Goto(t, "text_loop")
  /\ UNCHANGED <<heapVars, lock, iter, res, out, histVars>>

\* one turn of the loop: the value under the bullet at next_indent, a bullet
\* line before a ValueJSON payload, then "\n" unless it is the last node
to_text_loop(t) ==
  /\ At(t, "text_loop")
  /\ LET cur == loc[t].n IN
       IF cur = NULL
       THEN Goto(t, "text_unlock") /\ UNCHANGED loc /\ NoDeref
       ELSE LET has_next == node[cur].next # deque.end
                str == pgagroal_value_to_string(node[cur].data, "FORMAT_TEXT",
                                                Chars(BULLET_POINT), loc[t].next_indent)
                ni == IF loc[t].cnt = 0 /\ pgagroal_compare_string(loc[t].tag, BULLET_POINT)
                      THEN loc[t].indent + INDENT_PER_LEVEL ELSE loc[t].next_indent
                pre == IF value[node[cur].data].type = "ValueJSON"
                       THEN pgagroal_indent(loc[t].str, BULLET_POINT, ni) ELSE loc[t].str
            IN /\ loc' = [loc EXCEPT
                            ![t].str = pgagroal_append(pgagroal_append(pre, str),
                                          IF has_next THEN <<"\n">> ELSE <<>>),
                            ![t].cnt = IF @ = 0 THEN 1 ELSE @,
                            ![t].next_indent = ni,
                            ![t].n = deque_next(loc[t].d, cur)]
               /\ Fault(FALSE, StaleNode({cur}) \/ StaleValue(node[cur].data), FALSE)
               /\ UNCHANGED pc
  /\ UNCHANGED <<heapVars, lock, iter, res, out, histVars>>

to_text_unlock(t) ==
  /\ At(t, "text_unlock")
  /\ deque_unlock(t, loc[t].d)
  /\ ReturnNode(t, loc[t].str, loc[t].head)
  /\ UNCHANGED <<heapVars, iter, out, histVars, crashed, errs>>

\* ---- specification: one thread, every operation ----
AddSteps(t) ==
  \/ deque_offer_create(t)
  \/ deque_offer_lock(t)
  \/ deque_offer_size_ld(t)
  \/ deque_offer_size_st(t)
  \/ deque_offer_last(t)
  \/ deque_offer_link(t)
  \/ deque_offer_end(t)
  \/ deque_offer_unlock(t)

SizeSteps(t) ==
  \/ deque_size_lock(t)
  \/ deque_size_read(t)
  \/ deque_size_unlock(t)

\* the steps of poll and peek after a size check that saw elements; the
\* "just in case" returns (deque_poll_unlock0, deque_peek_unlock0) need another
\* thread to empty the deque in between and belong to concurrent callers
PollSteps(t) ==
  \/ deque_poll_sz(t)
  \/ deque_poll_lock(t)
  \/ deque_poll_head(t)
  \/ deque_poll_unlink1(t)
  \/ deque_poll_unlink2(t)
  \/ deque_poll_size_ld(t)
  \/ deque_poll_size_st(t)
  \/ deque_poll_val(t)
  \/ deque_poll_free_head(t)
  \/ deque_poll_data(t)
  \/ deque_poll_free_val(t)
  \/ deque_poll_unlock(t)

PeekSteps(t) ==
  \/ deque_peek_sz(t)
  \/ deque_peek_lock(t)
  \/ deque_peek_head(t)
  \/ deque_peek_val(t)
  \/ deque_peek_unlock(t)
  \/ deque_peek_data(t)

GetSteps(t) ==
  \/ deque_get_lock(t)
  \/ deque_find_first(t)
  \/ deque_find_loop(t)
  \/ deque_get_data(t)
  \/ deque_get_unlock(t)
  \/ deque_get_miss(t)

IterSteps(t) ==
  \/ deque_iterator_next_adv(t)
  \/ deque_iterator_next_set(t)
  \/ deque_remove_read(t)
  \/ deque_remove_link1(t)
  \/ deque_remove_link2(t)
  \/ deque_remove_destroy(t)
  \/ deque_remove_size_ld(t)
  \/ deque_remove_size_st(t)
  \/ deque_iterator_remove_set(t)

DestroySteps(t) ==
  \/ deque_destroy_loop(t)
  \/ deque_destroy_free(t)

\* ---- Spec: one thread using the queue operations; elements are added
\* untagged, with the empty tag or with tag "a", and looked up under every
\* tag of TagArgs ----
Next ==
  \/ \E d \in {NULL, DQ}, tag \in AddTags :
       Len(addLog) < MaxAdds /\ pgagroal_deque_add(1, d, tag, Len(addLog) + 1)
  \/ AddSteps(1)
  \/ \E d \in {NULL, DQ} : pgagroal_deque_size(1, d)
  \/ SizeSteps(1)
  \/ deque_size_ret(1)
  \/ \E d \in {NULL, DQ}, outp \in BOOLEAN : pgagroal_deque_poll(1, d, outp)
  \/ PollSteps(1)
  \/ \E d \in {NULL, DQ}, outp \in BOOLEAN : pgagroal_deque_peek(1, d, outp)
  \/ PeekSteps(1)
  \/ \E d \in {NULL, DQ}, tag \in TagArgs : pgagroal_deque_get(1, d, tag)
  \/ GetSteps(1)
  \/ \E d \in {NULL, DQ} : pgagroal_deque_empty(1, d)
  \/ deque_empty_ret(1)

Spec == Init /\ [][Next]_vars

\* ---- SpecIter: one thread using the iterator on a thread-safe deque, with
\* add, poll and destroy.
\* The caller steps or removes only through a cursor that no poll has freed
\* (CursorValid): anything else is the use-after-structural-change misuse.
IterTags == {NullStr, "a"}

NextIter ==
  \/ \E tag \in IterTags : pgagroal_deque_add(1, DQ, tag, Len(addLog) + 1)
  \/ AddSteps(1)
  \/ SizeSteps(1)
  \/ pgagroal_deque_poll(1, DQ, TRUE)
  \/ PollSteps(1)
  \/ \E d \in {NULL, DQ} : pgagroal_deque_iterator_create(1, d)
  \/ \E live \in BOOLEAN : pgagroal_deque_iterator_destroy(1, live)
  \/ \E live \in BOOLEAN :
        (live => CursorValid(1)) /\ pgagroal_deque_iterator_next(1, live)
  \/ \E live \in BOOLEAN :
        (live => CursorValid(1)) /\ pgagroal_deque_iterator_remove(1, live)
  \/ IterSteps(1)
  \/ \E d \in {NULL, DQ} : pgagroal_deque_destroy(1, d)
  \/ DestroySteps(1)

SpecIter == InitTS /\ [][NextIter]_vars

\* ---- SpecAdd: every thread adds one element under its own tag to a
\* thread-safe deque; once all adds have returned, thread 1 reads size and tags
Added(t) == \E i \in 1..Len(addLog) : addLog[i].tag = ThreadTag[t]
AllAdded == /\ \A t \in Threads : Added(t) /\ loc[t].op # "add"

NextAdd ==
  \/ \E t \in Threads :
        \/ ~Added(t) /\ pgagroal_deque_add(t, DQ, ThreadTag[t], Len(addLog) + 1)
        \/ AddSteps(t)
  \/ AllAdded /\ pgagroal_deque_size(1, DQ)
  \/ SizeSteps(1)
  \/ deque_size_ret(1)
  \/ \E tag \in {ThreadTag[u] : u \in Threads} \cup {"none"} :
        AllAdded /\ pgagroal_deque_get(1, DQ, tag)
  \/ GetSteps(1)

SpecAdd == InitTS /\ [][NextAdd]_vars

\* ---- SpecShared: two threads share a thread-safe deque.  Thread 1 reads
\* (size, empty, peek, get, to_string) and polls; thread 2 adds up to
\* MaxShared elements tagged "a" and polls.  A blocked lock request is granted once the lock is
\* offered again and again (pthread_rwlock blocks until granted), and a
\* thread inside a call keeps running.
StrSteps(t) ==
  \/ to_json_empty(t)
  \/ to_json_lock(t)
  \/ to_json_open(t)
  \/ to_json_loop(t)
  \/ to_json_close(t)
  \/ to_text_empty(t)
  \/ to_text_lock(t)
  \/ to_text_first(t)
  \/ to_text_loop(t)
  \/ to_text_unlock(t)

StrArgs == {[tag |-> NullStr, indent |-> 0], [tag |-> "t", indent |-> 1],
            [tag |-> BULLET_POINT, indent |-> 1]}

SharedSteps(t) ==
  \/ AddSteps(t)
  \/ SizeSteps(t)
  \/ deque_size_ret(t)
  \/ deque_empty_ret(t)
  \/ PollSteps(t)
  \/ deque_poll_unlock0(t)
  \/ PeekSteps(t)
  \/ deque_peek_unlock0(t)
  \/ GetSteps(t)
  \/ StrSteps(t)

NextShared ==
  \/ Len(addLog) < MaxShared /\ pgagroal_deque_add(2, DQ, "a", Len(addLog) + 1)
  \/ \E t \in {1, 2} : pgagroal_deque_poll(t, DQ, TRUE)
  \/ pgagroal_deque_size(1, DQ)
  \/ pgagroal_deque_empty(1, DQ)
  \/ pgagroal_deque_peek(1, DQ, TRUE)
  \/ \E tag \in {"a", "b"} : pgagroal_deque_get(1, DQ, tag)
  \/ \E d \in {NULL, DQ}, a \in StrArgs :
        pgagroal_deque_to_string(1, d, "FORMAT_JSON", a.tag, a.indent)
  \/ \E d \in {NULL, DQ}, a \in StrArgs :
        pgagroal_deque_to_string(1, d, "FORMAT_TEXT", a.tag, a.indent)
  \/ pgagroal_deque_to_string(1, DQ, "FORMAT_NONE", NullStr, 0)
  \/ \E t \in {1, 2} : SharedSteps(t)

SpecShared == /\ InitTS
              /\ [][NextShared]_vars
              /\ \A t \in {1, 2} : SF_vars(SharedSteps(t))

\* ---- SpecChain: one thread calls add, poll, peek, get and the iterator in
\* any order, on a deque created either way; nothing restrains the caller,
\* who may step or remove through a cursor whose node a poll has freed
NextChain ==
  \/ pgagroal_deque_add(1, DQ, "a", Len(addLog) + 1)
  \/ AddSteps(1)
  \/ SizeSteps(1)
  \/ pgagroal_deque_poll(1, DQ, TRUE)
  \/ PollSteps(1)
  \/ pgagroal_deque_peek(1, DQ, TRUE)
  \/ PeekSteps(1)
  \/ pgagroal_deque_get(1, DQ, "a")
  \/ GetSteps(1)
  \/ pgagroal_deque_iterator_create(1, DQ)
  \/ pgagroal_deque_iterator_destroy(1, TRUE)
  \/ pgagroal_deque_iterator_next(1, TRUE)
  \/ pgagroal_deque_iterator_remove(1, TRUE)
  \/ IterSteps(1)

SpecChain == Init /\ [][NextChain]_vars

\* ---- SpecRemove: on a thread-safe deque thread 1 adds MaxAdds elements,
\* walks an iterator to the last of them and removes it there, while thread 2
\* adds one element and polls once.  The poll takes the front node, which is
\* not the node under the cursor.
RemoveStarted == loc[1].op = "iterator_remove" \/ res[1].op = "iterator_remove"
PollStarted == loc[2].op = "poll" \/ res[2].op = "poll" \/ polled # {}
AddStarted == Added(2)
Racing == RemoveStarted \/ PollStarted \/ AddStarted

\* the cursor stands on the last of at least two real nodes
OnLast == /\ pc[1] = "idle" /\ iter[1].st = "live"
          /\ iter[1].cur \notin {NULL, START, END}
          /\ node[iter[1].cur].next = END
          /\ node[iter[1].cur].prev # START

NextRemove ==
  \/ /\ ~Racing /\ iter[1].st = "none" /\ Len(addLog) < MaxAdds
     /\ pgagroal_deque_add(1, DQ, ThreadTag[1], Len(addLog) + 1)
  \/ ~Racing /\ Len(addLog) = MaxAdds /\ pgagroal_deque_iterator_create(1, DQ)
  \/ ~Racing /\ iter[1].st = "live" /\ pgagroal_deque_iterator_next(1, TRUE)
  \/ (Racing \/ OnLast) /\ ~RemoveStarted /\ pgagroal_deque_iterator_remove(1, TRUE)
  \/ (Racing \/ OnLast) /\ ~AddStarted /\ pc[2] = "idle"
        /\ pgagroal_deque_add(2, DQ, ThreadTag[2], Len(addLog) + 1)
  \/ (Racing \/ OnLast) /\ ~PollStarted /\ pgagroal_deque_poll(2, DQ, TRUE)
  \/ \E t \in {1, 2} : AddSteps(t)
  \/ IterSteps(1)
  \/ SizeSteps(2)
  \/ PollSteps(2)

SpecRemove == InitTS /\ [][NextRemove]_vars

\* ---- SpecPoll: thread 1 fills a thread-safe deque with up to MaxAdds
\* elements; then every thread makes one call, a poll or a peek, all of them
\* concurrently
Called(t) == loc[t].op \in {"poll", "peek"} \/ res[t].op \in {"poll", "peek"}

NextPoll ==
  \/ /\ \A t \in Threads : ~Called(t)
     /\ Len(addLog) < MaxAdds
     /\ pgagroal_deque_add(1, DQ, "a", Len(addLog) + 1)
  \/ AddSteps(1)
  \/ \E t \in Threads : ~Called(t) /\ pc[1] = "idle" /\ pgagroal_deque_poll(t, DQ, TRUE)
  \/ \E t \in Threads : ~Called(t) /\ pc[1] = "idle" /\ pgagroal_deque_peek(t, DQ, TRUE)
  \/ \E t \in Threads :
        \/ SizeSteps(t)
        \/ PollSteps(t)
        \/ deque_poll_unlock0(t)
        \/ PeekSteps(t)
        \/ deque_peek_unlock0(t)

SpecPoll == InitTS /\ [][NextPoll]_vars

\* ---- SpecCursor: one thread adds elements and uses the iterator (create,
\* next, remove, destroy, on its iterator or on a null one); only the
\* iterator removes nodes
NextCursor ==
  \/ \E tag \in IterTags : pgagroal_deque_add(1, DQ, tag, Len(addLog) + 1)
  \/ AddSteps(1)
  \/ \E d \in {NULL, DQ} : pgagroal_deque_iterator_create(1, d)
  \/ \E live \in BOOLEAN : pgagroal_deque_iterator_destroy(1, live)
  \/ \E live \in BOOLEAN : pgagroal_deque_iterator_next(1, live)
  \/ \E live \in BOOLEAN : pgagroal_deque_iterator_remove(1, live)
  \/ IterSteps(1)

SpecCursor == Init /\ [][NextCursor]_vars

\* ---- derived views of the state ----
RECURSIVE Walk(_, _)
Walk(n, fuel) ==
  IF n = NULL \/ n = deque.end \/ fuel = 0 THEN <<>>
  ELSE <<n>> \o Walk(node[n].next, fuel - 1)

\* the real nodes, following next from the front sentinel
Forward == Walk(node[deque.start].next, MaxNodes + 2)

\* the elements added and not yet polled, in the order of the add calls
NPolled == Cardinality(polled)
Present == SubSeq(addLog, NPolled + 1, Len(addLog))

Idle(t) == pc[t] = "idle" /\ ~crashed

\* the data of the first element of seq tagged tag, 0 when there is none
FirstMatch(seq, tag) ==
  LET hits == {i \in 1..Len(seq) : seq[i].tag = tag}
  IN IF hits = {} THEN 0
     ELSE seq[CHOOSE i \in hits : \A j \in hits : i <= j].data

TypeOK == /\ deque.size \in Int
          /\ \A t \in Threads : pc[t] \in STRING

\* C1: FIFO order.  With removal by poll only, the i-th poll that takes a
\* node returns the raw value given to the i-th add and, when the caller
\* passes a tag variable, the tag given to the i-th add.
FifoOrder ==
  (Idle(1) /\ res[1].op = "poll" /\ res[1].n # NULL /\ removed = {}) =>
     /\ res[1].val = addLog[NPolled].data
     /\ res[1].outp => TagStr(out[1]) = addLog[NPolled].tag

FifoWitness ==
  /\ Idle(1) /\ res[1].op = "poll" /\ res[1].n # NULL /\ res[1].outp
  /\ Len(addLog) = MaxAdds /\ NPolled = MaxAdds
  /\ TagStr(out[1]) = "a" /\ addLog[1].tag = ""

\* C2: size accounting.  After N adds and M polls that each took a node,
\* size() returns N - M and empty() returns true exactly when that is 0.
SizeAccounting ==
  (Idle(1) /\ removed = {} /\ res[1].d # NULL) =>
     /\ res[1].op = "size" => res[1].val = Len(addLog) - NPolled
     /\ res[1].op = "empty" => res[1].val = (Len(addLog) - NPolled = 0)

SizeWitness ==
  /\ Idle(1) /\ res[1].op = "size" /\ res[1].d # NULL
  /\ Len(addLog) = MaxAdds /\ NPolled = 1 /\ res[1].val = MaxAdds - 1

\* C3: tag lookup.  get(tag) returns the raw value of the earliest-added
\* element still present whose tag equals the argument, and 0 when there is
\* none, when the deque is null or empty, or when the tag is null or "";
\* no step of get changes a node, a value cell, a tag or the size.
TagLookupResult ==
  (Idle(1) /\ res[1].op = "get") =>
     res[1].val = IF res[1].d = NULL \/ res[1].tag \in {NullStr, ""} THEN 0
                  ELSE FirstMatch(Present, res[1].tag)

TagLookupFrame == loc[1].op = "get" => UNCHANGED <<deque, node, value, tagmem>>

TagLookup == []TagLookupResult /\ [][TagLookupFrame]_vars

TagLookupWitness ==
  /\ Idle(1) /\ res[1].op = "get" /\ res[1].tag = "a"
  /\ Len(Present) = 2 /\ Present[1].tag = "a" /\ Present[2].tag = "a"
  /\ res[1].val = Present[1].data

\* C10: peek is non-destructive.  On a non-empty deque peek returns the raw
\* value and the tag of the front-most real node, a peek or a poll that
\* follows it at once returns the same value and tag, and no step of peek
\* changes a node, a value cell, a tag, the size or who owns a tag.
PeekResult ==
  (Idle(1) /\ res[1].op = "peek" /\ res[1].d # NULL /\ Present # <<>>) =>
     /\ res[1].val = Present[1].data
     /\ res[1].n = Forward[1]
     /\ res[1].outp => /\ out[1] = node[res[1].n].tag
                       /\ TagStr(out[1]) = Present[1].tag
                       /\ out[1] \notin callerTags
     /\ hist.op = "peek"
     /\ res[1].val = hist.val
     /\ (res[1].outp /\ hist.outp) => out[1] = hist.tag

PollAfterPeek ==
  (Idle(1) /\ res[1].op = "poll" /\ res[1].d # NULL /\ hist.op = "peek") =>
     /\ res[1].n # NULL
     /\ res[1].val = hist.val
     /\ (res[1].outp /\ hist.outp) => out[1] = hist.tag

PeekFrame == loc[1].op = "peek" => UNCHANGED <<deque, node, value, tagmem, callerTags>>

PeekNonDestructive == [](PeekResult /\ PollAfterPeek) /\ [][PeekFrame]_vars

PeekWitness ==
  /\ Idle(1) /\ res[1].op = "poll" /\ hist.op = "peek"
  /\ res[1].outp /\ hist.outp /\ hist.tag # NULL /\ out[1] = hist.tag
  /\ Len(addLog) = MaxAdds /\ NPolled = 1

\* C4: remove-then-next.  After the iterator removed the node X it stood
\* on, the next iterator_next returns true and stands on X's successor Y
\* when Y is a real node, and returns false when X was the last real node;
\* the cursor never stands on a removed node again.
RemoveThenNext ==
  /\ (Idle(1) /\ res[1].op = "iterator_next" /\ hist.op = "iterator_remove") =>
        IF hist.y # deque.end
        THEN res[1].val = TRUE /\ iter[1].cur = hist.y /\ iter[1].value = node[hist.y].data
        ELSE res[1].val = FALSE
  /\ iter[1].cur \notin removed

RemoveThenNextWitness ==
  /\ Idle(1) /\ res[1].op = "iterator_next" /\ hist.op = "iterator_remove"
  /\ hist.y # deque.end /\ iter[1].cur = hist.y
  /\ node[hist.y].prev # deque.start

\* C5: concurrent add.  Once every thread's add on the thread-safe deque has
\* returned, the size is the number of threads, the chain holds that many
\* real nodes, size() returns that number and get returns, for each thread's
\* tag, the value that thread added (and 0 for a tag nobody added).
ConcurrentAdd ==
  AllAdded =>
     /\ deque.size = MaxThreads
     /\ Len(Forward) = MaxThreads
     /\ \A t \in Threads :
          /\ (Idle(t) /\ res[t].op = "size") => res[t].val = MaxThreads
          /\ (Idle(t) /\ res[t].op = "get") =>
                IF res[t].tag = "none" THEN res[t].val = 0
                ELSE \E i \in 1..Len(addLog) : /\ addLog[i].tag = res[t].tag
                                               /\ addLog[i].data = res[t].val

ConcurrentAddWitness ==
  /\ AllAdded
  /\ Idle(1) /\ res[1].op = "get" /\ res[1].tag = ThreadTag[MaxThreads]
  /\ res[1].val # 0
  /\ addLog[1].tag = ThreadTag[MaxThreads]

\* C6: writer-lock discipline.  On a thread-safe deque every step that
\* changes a link of a live node, changes the size or frees a node is taken
\* by the thread that holds the writer lock.
StructuralWrite ==
  \/ deque'.size # deque.size
  \/ \E n \in NodeIds : /\ node[n].st = "live"
                        /\ \/ node'[n].next # node[n].next
                           \/ node'[n].prev # node[n].prev
                           \/ node'[n].st = "freed"

WriterLockDiscipline ==
  [][(deque.thread_safe /\ StructuralWrite) => lock.w = actor']_vars

TagHolders(c) ==
  (IF node[c].st = "live" /\ node[c].tag = c THEN 1 ELSE 0)
    + (IF c \in callerTags THEN 1 ELSE 0)
    + (IF tagmem[c].st = "freed" THEN 1 ELSE 0)

TagOwnership ==
  \A c \in NodeIds :
    tagmem[c].st # "unalloc" =>
       /\ TagHolders(c) >= 1
       /\ pc[1] = "idle" => TagHolders(c) = 1

\* C9: null arguments.  A call that is passed a null deque changes no node,
\* value cell, tag, size or lock, dereferences no null pointer and returns
\* the neutral result.
NullCallRunning == loc'[1].op # "none" /\ loc'[1].d = NULL

NullArgumentsNeutral ==
  /\ []("null_deref" \notin errs)
  /\ []((Idle(1) /\ res[1].d = NULL /\ res[1].op \in {"add", "poll", "peek", "get", "size"})
           => res[1].val = 0)
  /\ [][NullCallRunning => UNCHANGED <<deque, node, value, tagmem, lock>>]_vars

\* C11: empty JSON rendering.  When to_string with format JSON returns and
\* the chain held no real node as its contents were read (head is null: at
\* the emptiness test, or at the start of the locked traversal), the result
\* is the context-tag/indent prefix followed by exactly "[]", whatever a
\* concurrent poll did in between.
EmptyJsonRendering ==
  (Idle(1) /\ res[1].op = "to_json" /\ res[1].n = NULL) =>
     res[1].val = pgagroal_append(pgagroal_indent(<<>>, res[1].tag, res[1].indent),
                                  <<"[", "]">>)

\* C19: reads stay under the read lock.  On a thread-safe deque no step of
\* peek or get is about to read a node or a value cell that a concurrent poll
\* has freed, and every such read is made by a holder of the read lock.
ReadsUnderReadLock ==
  \A t \in {1, 2} :
    /\ pc[t] = "peek_val" => (t \in lock.r /\ ~StaleNode({loc[t].head}))
    /\ pc[t] = "get_loop" => (t \in lock.r /\ ~StaleNode({loc[t].n}))
    /\ pc[t] = "get_data" => (t \in lock.r /\ ~StaleNode({loc[t].n})
                                /\ ~StaleValue(node[loc[t].n].data))
    /\ pc[t] = "peek_data" => ~StaleValue(loc[t].val)

\* C17: lock balance.  On a thread-safe deque a thread that is in no call
\* holds no lock, a thread about to request the lock does not hold it, and
\* (a blocked request being granted once the lock is free again and again)
\* every call that was started returns, unless the process has faulted.
LockRequests == {"offer_lock", "size_lock", "poll_lock", "peek_lock", "get_lock",
                 "json_lock", "text_lock"}

Holds(t) == lock.w = t \/ t \in lock.r

LockFreeOutsideCalls ==
  /\ \A t \in {1, 2} : pc[t] \in LockRequests \cup {"idle"} => ~Holds(t)
  /\ (pc[1] = "idle" /\ pc[2] = "idle") => lock = [w |-> NULL, r |-> {}]

LockBalance ==
  /\ []LockFreeOutsideCalls
  /\ \A t \in {1, 2} : (pc[t] # "idle") ~> (pc[t] = "idle" \/ crashed)

LockBalanceWitness ==
  /\ Idle(1) /\ Idle(2) /\ lock = [w |-> NULL, r |-> {}]
  /\ res[1].op = "poll" /\ res[1].n # NULL
  /\ res[2].op = "poll" /\ res[2].n = NULL /\ Len(addLog) = MaxShared

\* the real nodes, following prev from the back sentinel
RECURSIVE WalkBack(_, _)
WalkBack(n, fuel) ==
  IF n = NULL \/ n = deque.start \/ fuel = 0 THEN <<>>
  ELSE <<n>> \o WalkBack(node[n].prev, fuel - 1)

Backward == WalkBack(node[deque.end].prev, MaxNodes + 2)

Reverse(s) == [i \in 1..Len(s) |-> s[Len(s) + 1 - i]]

\* (a) the sentinels are linked to each other exactly when size is 0, (b)
\* next from the front sentinel reaches the back sentinel after size live
\* real nodes, (c) prev from the back sentinel visits them in reverse; the
\* sentinels are live, keep their outward links and are never handed out
ChainWellFormed ==
  /\ (node[deque.start].next = deque.end /\ node[deque.end].prev = deque.start)
        <=> deque.size = 0
  /\ Len(Forward) = deque.size
  /\ node[IF Forward = <<>> THEN deque.start ELSE Forward[Len(Forward)]].next = deque.end
  /\ \A i \in 1..Len(Forward) : Forward[i] \notin {START, END} /\ node[Forward[i]].st = "live"
  /\ Backward = Reverse(Forward)
  /\ deque.start = START /\ deque.end = END
  /\ node[START].st = "live" /\ node[END].st = "live"
  /\ node[START].prev = NULL /\ node[END].next = NULL
  /\ res[1].n \notin {START, END}
  /\ iter[1].value \notin {START, END}
  /\ {START, END} \cap (polled \cup removed) = {}

RaceOver == /\ pc[1] = "idle" /\ pc[2] = "idle" /\ ~crashed
            /\ removed # {} /\ polled # {} /\ AddStarted

RemoveAtomic ==
  RaceOver =>
     /\ deque.size = Len(Forward)
     /\ Backward = Reverse(Forward)
     /\ node[IF Forward = <<>> THEN START ELSE Forward[Len(Forward)]].next = END
     /\ {Forward[i] : i \in 1..Len(Forward)}
          = {n \in NodeIds \ {START, END} : node[n].st # "unalloc"} \ (removed \cup polled)

\* C18: polling an empty or contended deque.  A poll or peek that finds no
\* real node returns 0 and leaves the caller's tag variable as it was; no two
\* polls return the same element; size is never below 0 and no sentinel is
\* unlinked; and once the k polls (and the peeks) on a deque of n elements
\* have returned, min(k, n) polls have taken an element, the other polls
\* found none, and the chain holds the other n - min(k, n) elements in order
\* with size equal to their number.
Min(a, b) == IF a <= b THEN a ELSE b

Pollers == {t \in Threads : res[t].op = "poll"}
Takers == {t \in Pollers : res[t].n # NULL}
AllReturned == \A t \in Threads : Called(t) /\ pc[t] = "idle"

ContendedPoll ==
  /\ deque.size >= 0
  /\ "null_deref" \notin errs /\ "double_free" \notin errs
  /\ node[START].st = "live" /\ node[END].st = "live"
  /\ \A t \in Threads :
       (pc[t] = "idle" /\ res[t].op \in {"poll", "peek"} /\ res[t].n = NULL) =>
          res[t].val = 0 /\ out[t] = NULL
  /\ \A t \in Takers : \A u \in Takers : t # u => res[t].n # res[u].n
  /\ (AllReturned /\ ~crashed) =>
        /\ Cardinality(Takers) = Min(Cardinality(Pollers), Len(addLog))
        /\ polled = {res[t].n : t \in Takers}
        /\ deque.size = Len(addLog) - Cardinality(Takers)
        /\ Forward = [i \in 1..(Len(addLog) - Cardinality(Takers)) |->
                         END + Cardinality(Takers) + i]
        /\ Backward = Reverse(Forward)
        /\ node[IF Forward = <<>> THEN START ELSE Forward[Len(Forward)]].next = END

ContendedPollWitness ==
  /\ AllReturned /\ ~crashed
  /\ Pollers = Threads /\ Len(addLog) = MaxThreads - 1
  /\ Cardinality(Takers) = MaxThreads - 1

\* the place of the cursor in the chain: 0 on the front sentinel, i on the
\* i-th real node
Pos(c) == IF c = START THEN 0 ELSE CHOOSE i \in 1..Len(Forward) : Forward[i] = c

\* C14: full traversal.  A fresh iterator stands on the front sentinel and
\* exposes no tag and no value.  A call of next made at place i of a chain of
\* n real nodes returns true and moves to place i + 1 when i < n, and
\* returns false when i = n; so on an unchanged deque it returns true n
\* times and then false.  After a true the iterator exposes the tag and the
\* value cell of the node it stands on, which, when nothing was removed, are
\* those of the add with the same ordinal.
TraversalState ==
  (pc[1] = "idle" /\ iter[1].st = "live") =>
     /\ res[1].op = "iterator_create" =>
          iter[1] = [st |-> "live", cur |-> START, tag |-> NULL, value |-> NULL]
     /\ (res[1].op = "iterator_next" /\ res[1].d # NULL) =>
          IF res[1].val
          THEN LET c == iter[1].cur IN
                 /\ \E i \in 1..Len(Forward) : Forward[i] = c
                 /\ iter[1].tag = node[c].tag /\ iter[1].value = node[c].data
                 /\ removed = {} =>
                      /\ TagStr(iter[1].tag) = addLog[Pos(c)].tag
                      /\ pgagroal_value_data(iter[1].value) = addLog[Pos(c)].data
          ELSE iter[1].cur = NULL

TraversalStep ==
  /\ pc[1] = "next_adv" =>
       LET c == iter[1].cur IN
         IF c # NULL /\ Pos(c) < Len(Forward)
         THEN iter'[1].cur = Forward[Pos(c) + 1] /\ pc'[1] = "next_set"
         ELSE iter'[1].cur = NULL /\ pc'[1] = "idle" /\ res'[1].val = FALSE
  /\ pc[1] = "next_set" => (pc'[1] = "idle" /\ res'[1].val = TRUE)

FullTraversal == []TraversalState /\ [][TraversalStep]_vars

FullTraversalWitness ==
  /\ Idle(1) /\ res[1].op = "iterator_next" /\ res[1].d # NULL /\ res[1].val = FALSE
  /\ removed = {} /\ Len(Forward) = MaxNodes /\ deque.size = MaxNodes
  /\ iter[1].value = node[Forward[MaxNodes]].data
  /\ TagStr(iter[1].tag) = "a"

\* the real nodes in the order of their adds (the k-th add takes cell END + k)
\* without those the iterator removed
NotRemoved(n) == n \notin removed
Remaining == SelectSeq([i \in 1..Len(addLog) |-> END + i], NotRemoved)

\* the nearest node added before x and not removed, or the front sentinel
Pred(x) ==
  LET below == {n \in NodeIds : n > END /\ n < x /\ n \notin removed}
  IN IF below = {} THEN START ELSE CHOOSE m \in below : \A k \in below : k <= m

\* C15: cursor rewind on removal.  Between calls the chain holds the added
\* nodes that were not removed, in the order of their adds, and size is their
\* number; every removed node is freed with its value cell and its tag, every
\* other node is live; and when a removal of node X has returned, the cursor
\* is X's predecessor, exposing nothing on the front sentinel and the
\* predecessor's own tag and value cell otherwise.
CursorRewind ==
  /\ errs = {}
  /\ \A n \in removed : /\ node[n].st = "freed" /\ value[n].st = "freed"
                        /\ tagmem[n].st # "live"
  /\ pc[1] = "idle" =>
       /\ Forward = Remaining
       /\ Backward = Reverse(Forward)
       /\ deque.size = Len(addLog) - Cardinality(removed)
       /\ \A i \in 1..Len(Forward) :
            /\ node[Forward[i]].st = "live" /\ value[Forward[i]].st = "live"
            /\ pgagroal_value_data(Forward[i]) = addLog[Forward[i] - END].data
            /\ TagStr(node[Forward[i]].tag) = addLog[Forward[i] - END].tag
  /\ (pc[1] = "idle" /\ res[1].op = "iterator_remove" /\ hist.op = "iterator_remove") =>
       /\ hist.x \in removed
       /\ iter[1].cur = Pred(hist.x)
       /\ IF iter[1].cur = START
          THEN iter[1].tag = NULL /\ iter[1].value = NULL
          ELSE /\ iter[1].tag = node[iter[1].cur].tag
               /\ iter[1].value = node[iter[1].cur].data
               /\ iter[1].value # hist.x
               /\ value[iter[1].value].st = "live"

CursorRewindWitness ==
  /\ Idle(1) /\ res[1].op = "iterator_remove" /\ hist.op = "iterator_remove"
  /\ iter[1].cur # START /\ node[iter[1].cur].next # END
  /\ node[iter[1].cur].next = hist.y /\ iter[1].tag # NULL

\* C16: removal off a real node.  A remove_at_cursor called with a null
\* iterator, or with the cursor null or on a sentinel, returns at once and
\* changes no node, value cell, tag, size or iterator field; a removal always
\* takes the node under the cursor, which after a removal of X is X's
\* predecessor; no sentinel is ever removed or freed.
RemoveCalled ==
  pc[1] = "idle" /\ (res'[1].op = "iterator_remove" \/ loc'[1].op = "iterator_remove")

OffReal == iter[1].st # "live" \/ iter[1].cur \in {NULL, START, END}

RemoveOffRealStep ==
  /\ (RemoveCalled /\ OffReal) => pc'[1] = "idle"
  /\ (RemoveCalled /\ pc'[1] = "idle") =>
        UNCHANGED <<deque, node, value, tagmem, iter, removed, crashed, errs>>
  /\ (RemoveCalled /\ pc'[1] # "idle") =>
        /\ loc'[1].n = iter[1].cur
        /\ (res[1].op = "iterator_remove" /\ hist.op = "iterator_remove") =>
              loc'[1].n = Pred(hist.x)

SentinelsKept ==
  /\ {START, END} \cap removed = {}
  /\ node[START].st = "live" /\ node[END].st = "live"
  /\ "null_deref" \notin errs
  /\ iter[1].cur # END

RemoveOffReal == []SentinelsKept /\ [][RemoveOffRealStep]_vars

RemoveOffRealWitness ==
  /\ Idle(1) /\ res[1].op = "iterator_remove" /\ res[1].d = NULL
  /\ iter[1].st = "live" /\ iter[1].cur = START
  /\ Cardinality(removed) = 2 /\ Len(Forward) = 1

\* C20: exhaustion is permanent.  When next has returned false the cursor
\* is null; from then on no step changes the iterator's cursor, tag or value
\* (until it is destroyed), every next returns false and every
\* remove_at_cursor returns at once changing nothing, whatever is added
\* meanwhile; the step that exhausts the iterator keeps the exposed tag and
\* value; nothing is dereferenced through the null cursor.
Exhausted == iter[1].st = "live" /\ iter[1].cur = NULL

ExhaustedState ==
  /\ (pc[1] = "idle" /\ res[1].op = "iterator_next" /\ res[1].d # NULL /\ ~res[1].val)
        => Exhausted
  /\ "null_deref" \notin errs

ExhaustedStep ==
  /\ Exhausted =>
       /\ iter'[1] = iter[1] \/ iter'[1].st = "none"
       /\ (pc'[1] = "idle" /\ res'[1].op = "iterator_next") => ~res'[1].val
       /\ RemoveCalled =>
            (pc'[1] = "idle" /\ UNCHANGED <<deque, node, value, tagmem, removed>>)
  /\ (pc[1] = "next_adv" /\ iter'[1].cur = NULL) =>
       (iter'[1].tag = iter[1].tag /\ iter'[1].value = iter[1].value)

ExhaustionPermanent == []ExhaustedState /\ [][ExhaustedStep]_vars

ExhaustionWitness ==
  /\ Idle(1) /\ Exhausted /\ res[1].op = "iterator_next" /\ res[1].d # NULL
  /\ iter[1].value # NULL
  /\ \E i \in 1..Len(Forward) : Forward[i] > iter[1].value
  /\ deque.size = Len(Forward)

====
